---- MODULE Spec2Model ----
(***************************************************************************)
(* A model of the getpronto SDK: the fluent image-transformation builder   *)
(* (src/src/transformers/image.ts), the upload input normaliser            *)
(* (src/src/api/files.ts) and the transport they post through              *)
(* (src/src/core/http-client.ts).                                          *)
(*                                                                         *)
(* Representation.                                                         *)
(*  - A JavaScript number is a record [nan, t]: NaN, or the exact decimal   *)
(*    t/10 (one fractional digit is enough for every literal of the code:  *)
(*    0.3 is t = 3, 5000 is t = 50000).                                    *)
(*  - A JavaScript string the code inspects character by character is a    *)
(*    sequence of one-character strings.  Strings the code only passes on  *)
(*    (error messages, server URLs) are TLA+ strings.                      *)
(*  - An optional value (an omitted argument, an absent property) is the   *)
(*    empty sequence <<>>, a present one the one-element sequence <<v>>.   *)
(***************************************************************************)
EXTENDS Integers, Sequences, FiniteSets, TLC

VARIABLES
    options,    \* ImageTransformer.options, the accumulated TransformOptions
    last,       \* the most recent setter call: its arguments and how it ended
    nsetters,   \* number of setter calls made so far
    calls,      \* the toURL()/transform() (or list()) invocations, in invocation order
    requests,   \* every HTTP request issued so far, in order
    upload,     \* the FileAPI.upload invocation under way (or finished)
    inference   \* a FileAPI over an arbitrary MIME registry and the lookups made on it

vars == <<options, last, nsetters, calls, requests, upload, inference>>

(***************************************************************************)
(* Bounds of the model.                                                    *)
(***************************************************************************)
MaxSetterCalls == 2
MaxTerminalCalls == 2
MaxOps == 4
\* the longest MIME registry a FileAPI is constructed over
MaxRegistry == 2

(***************************************************************************)
(* JavaScript numbers.                                                     *)
(***************************************************************************)
NaN == [nan |-> TRUE, t |-> 0]
Num(i) == [nan |-> FALSE, t |-> 10 * i]
Tenths(i) == [nan |-> FALSE, t |-> i]

\* a < b and a > b: every comparison with NaN is false
Lt(a, b) == ~a.nan /\ ~b.nan /\ a.t < b.t
Gt(a, b) == ~a.nan /\ ~b.nan /\ a.t > b.t

\* if (x) on an optional number: undefined, 0 and NaN are falsy
TruthyNum(m) == m # <<>> /\ ~m[1].nan /\ m[1].t # 0

\* if (s) on an optional string: undefined and "" are falsy
TruthyStr(m) == m # <<>> /\ m[1] # <<>>

DigitChars == <<"0", "1", "2", "3", "4", "5", "6", "7", "8", "9">>

RECURSIVE IntDigits(_)
IntDigits(n) ==
    IF n < 10 THEN <<DigitChars[n + 1]>>
    ELSE IntDigits(n \div 10) \o <<DigitChars[(n % 10) + 1]>>

\* `${n}`: Number.prototype.toString
NumToString(n) ==
    IF n.nan THEN <<"N", "a", "N">>
    ELSE LET a == IF n.t < 0 THEN -n.t ELSE n.t
             sign == IF n.t < 0 THEN <<"-">> ELSE <<>>
             frac == IF a % 10 = 0 THEN <<>> ELSE <<".", DigitChars[(a % 10) + 1]>>
         IN  sign \o IntDigits(a \div 10) \o frac

(***************************************************************************)
(* Character-level string helpers.                                         *)
(***************************************************************************)
Digits == {"0", "1", "2", "3", "4", "5", "6", "7", "8", "9"}
UpperHex == {"A", "B", "C", "D", "E", "F"}
LowerHex == {"a", "b", "c", "d", "e", "f"}

\* /^[0-9A-F]{6}$/i.test(s)
IsHexColor(s) ==
    /\ Len(s) = 6
    /\ \A i \in 1..6 : s[i] \in Digits \cup UpperHex \cup LowerHex

\* first index of character c in s, 0 when absent
IndexOf(s, c) ==
    IF \E i \in 1..Len(s) : s[i] = c
    THEN CHOOSE i \in 1..Len(s) : s[i] = c /\ \A j \in 1..(i - 1) : s[j] # c
    ELSE 0

\* s.replace(c, ""): removes the first occurrence only
RemoveFirst(s, c) ==
    LET i == IndexOf(s, c)
    IN  IF i = 0 THEN s
        ELSE SubSeq(s, 1, i - 1) \o SubSeq(s, i + 1, Len(s))

\* s.startsWith(p)
StartsWith(s, p) == Len(s) >= Len(p) /\ SubSeq(s, 1, Len(p)) = p

\* s.lastIndexOf(c), 0 when absent
LastIndexOf(s, c) ==
    IF \E i \in 1..Len(s) : s[i] = c
    THEN CHOOSE i \in 1..Len(s) : s[i] = c /\ \A j \in (i + 1)..Len(s) : s[j] # c
    ELSE 0

UpperLetters == <<"A", "B", "C", "D", "E", "F", "G", "H", "I", "J", "K", "L", "M",
                  "N", "O", "P", "Q", "R", "S", "T", "U", "V", "W", "X", "Y", "Z">>
LowerLetters == <<"a", "b", "c", "d", "e", "f", "g", "h", "i", "j", "k", "l", "m",
                  "n", "o", "p", "q", "r", "s", "t", "u", "v", "w", "x", "y", "z">>
Letters == {UpperLetters[i] : i \in 1..26} \cup {LowerLetters[i] : i \in 1..26}

LowerChar(c) ==
    IF \E i \in 1..26 : UpperLetters[i] = c
    THEN LowerLetters[CHOOSE i \in 1..26 : UpperLetters[i] = c]
    ELSE c

\* s.toLowerCase()
ToLowerCase(s) == [i \in 1..Len(s) |-> LowerChar(s[i])]

Whitespace == {" ", "\t", "\n", "\r"}
LineTerminators == {"\n", "\r"}

\* s.trim()
Trim(s) ==
    IF \A i \in 1..Len(s) : s[i] \in Whitespace THEN <<>>
    ELSE LET a == CHOOSE i \in 1..Len(s) :
                      s[i] \notin Whitespace /\ \A j \in 1..(i - 1) : s[j] \in Whitespace
             b == CHOOSE i \in 1..Len(s) :
                      s[i] \notin Whitespace /\ \A j \in (i + 1)..Len(s) : s[j] \in Whitespace
         IN  SubSeq(s, a, b)

\* the length of the longest prefix of s made of characters of class
RunLength(s, class) ==
    IF \A i \in 1..Len(s) : s[i] \in class THEN Len(s)
    ELSE (CHOOSE i \in 1..Len(s) : s[i] \notin class /\ \A j \in 1..(i - 1) : s[j] \in class) - 1

\* s with its first n characters dropped
Drop(s, n) == SubSeq(s, n + 1, Len(s))

\* s.split(sep) for a set of one-character separators: the pieces between them
RECURSIVE Split(_, _)
Split(s, seps) ==
    IF \A i \in 1..Len(s) : s[i] \notin seps THEN <<s>>
    ELSE LET i == CHOOSE k \in 1..Len(s) :
                      s[k] \in seps /\ \A j \in 1..(k - 1) : s[j] \notin seps
         IN  <<SubSeq(s, 1, i - 1)>> \o Split(SubSeq(s, i + 1, Len(s)), seps)

(***************************************************************************)
(* TransformOptions and the setters of ImageTransformer.                   *)
(***************************************************************************)
Fields == {"w", "h", "fit", "q", "blur", "sharp", "gray", "rot", "border",
           "crop", "format"}

EmptyOptions == [f \in Fields |-> <<>>]

Return(o) == [options |-> o, threw |-> FALSE, error |-> ""]
Throw(o, msg) == [options |-> o, threw |-> TRUE, error |-> msg]

OutOfRange(v, lo, hi) == Lt(v, lo) \/ Gt(v, hi)

resize(o, width, height, fit) ==
    IF TruthyNum(width) /\ OutOfRange(width[1], Num(1), Num(5000))
    THEN Throw(o, "Width must be between 1 and 5000 pixels")
    ELSE
      LET o1 == IF TruthyNum(width) THEN [o EXCEPT !.w = <<width[1]>>] ELSE o
      IN  IF TruthyNum(height) /\ OutOfRange(height[1], Num(1), Num(5000))
          THEN Throw(o1, "Height must be between 1 and 5000 pixels")
          ELSE
            LET o2 == IF TruthyNum(height) THEN [o1 EXCEPT !.h = <<height[1]>>]
                      ELSE o1
                f  == IF fit = <<>> THEN "cover" ELSE fit[1]
            IN  IF TruthyNum(width) \/ TruthyNum(height)
                THEN Return([o2 EXCEPT !.fit = <<f>>])
                ELSE Return(o2)

\* a quality() that also drops the grayscale flag
quality_resetting(o, value) ==
    IF OutOfRange(value, Num(1), Num(100))
    THEN Throw(o, "Quality must be between 1 and 100")
    ELSE Return([o EXCEPT !.q = <<value>>, !.gray = <<>>])

quality(o, value) ==
    IF OutOfRange(value, Num(1), Num(100))
    THEN Throw(o, "Quality must be between 1 and 100")
    ELSE Return([o EXCEPT !.q = <<value>>])

blur(o, value) ==
    IF OutOfRange(value, Tenths(3), Num(1000))
    THEN Throw(o, "Blur value must be between 0.3 and 1000")
    ELSE Return([o EXCEPT !.blur = <<value>>])

sharpen(o) == Return([o EXCEPT !.sharp = <<TRUE>>])

grayscale(o) == Return([o EXCEPT !.gray = <<TRUE>>])

rotate(o, degrees) ==
    IF OutOfRange(degrees, Num(-360), Num(360))
    THEN Throw(o, "Rotation must be between -360 and 360 degrees")
    ELSE Return([o EXCEPT !.rot = <<degrees>>])

border(o, width, color) ==
    IF Lt(width, Num(1))
    THEN Throw(o, "Border width must be positive")
    ELSE
      LET hexColor == RemoveFirst(color, "#")
      IN  IF ~IsHexColor(hexColor)
          THEN Throw(o, "Invalid color format. Use 6-digit hex color (e.g., FF0000 for red)")
          ELSE Return([o EXCEPT !.border =
                         <<NumToString(width) \o <<"_">> \o hexColor>>])

crop(o, x, y, width, height) ==
    IF Lt(width, Num(1)) \/ Lt(height, Num(1))
    THEN Throw(o, "Crop dimensions must be positive")
    ELSE Return([o EXCEPT !.crop =
                   <<NumToString(x) \o <<",">> \o NumToString(y) \o <<",">>
                     \o NumToString(width) \o <<",">> \o NumToString(height)>>])

format(o, type) == Return([o EXCEPT !.format = <<type>>])

(***************************************************************************)
(* Setter calls.  A call is [op, n, s]: the setter's name, its numeric     *)
(* arguments (each optional) and its string argument (optional).           *)
(***************************************************************************)
Call(op, n, s) == [op |-> op, n |-> n, s |-> s]

\* the result of making call c on a builder whose option record is o
Apply(o, c) ==
    CASE c.op = "resize"    -> resize(o, c.n[1], c.n[2], c.s)
      [] c.op = "quality"   -> quality(o, c.n[1][1])
      [] c.op = "blur"      -> blur(o, c.n[1][1])
      [] c.op = "sharpen"   -> sharpen(o)
      [] c.op = "grayscale" -> grayscale(o)
      [] c.op = "rotate"    -> rotate(o, c.n[1][1])
      [] c.op = "border"    -> border(o, c.n[1][1], c.s[1])
      [] c.op = "crop"      -> crop(o, c.n[1][1], c.n[2][1], c.n[3][1], c.n[4][1])
      [] c.op = "format"    -> format(o, c.s[1])

\* Arguments the setters are called with.
WidthArgs == {<<>>, <<Num(0)>>, <<Num(1)>>, <<Num(800)>>, <<Num(5001)>>}
HeightArgs == {<<>>, <<Num(600)>>, <<Num(5000)>>, <<Num(5001)>>}
FitArgs == {<<>>, <<"contain">>}
QualityArgs == {Num(0), Num(1), Num(90), Num(100), Num(101), NaN}
BlurArgs == {Tenths(1), Tenths(3), Num(2), Num(1000), Num(1001)}
RotateArgs == {Num(-361), Num(-360), Num(360), Num(361)}
BorderWidthArgs == {Num(0), Num(1), Num(5)}
ColorArgs == {<<"z", "z", "0", "0", "0", "0">>,
              <<"F", "F", "0", "0", "0", "0">>,
              <<"#", "f", "f", "0", "0", "0", "0">>}
CropArgs == {<<Num(0), Num(0), Num(0), Num(1)>>,
             <<Num(0), Num(0), Num(1), Num(0)>>,
             <<Num(0), Num(0), Num(1), Num(1)>>,
             <<Num(100), Num(100), Num(500), Num(500)>>}
FormatArgs == {"webp", "jpeg", "gif"}

ResizeCalls == {Call("resize", <<w, h>>, f) : w \in WidthArgs, h \in HeightArgs, f \in FitArgs}
QualityCalls == {Call("quality", <<<<v>>>>, <<>>) : v \in QualityArgs}
BlurCalls == {Call("blur", <<<<v>>>>, <<>>) : v \in BlurArgs}
SharpenCalls == {Call("sharpen", <<>>, <<>>)}
GrayscaleCalls == {Call("grayscale", <<>>, <<>>)}
RotateCalls == {Call("rotate", <<<<v>>>>, <<>>) : v \in RotateArgs}
BorderCalls == {Call("border", <<<<w>>>>, <<c>>) : w \in BorderWidthArgs, c \in ColorArgs}
CropCalls == {Call("crop", <<<<a[1]>>, <<a[2]>>, <<a[3]>>, <<a[4]>>>>, <<>>) : a \in CropArgs}
FormatCalls == {Call("format", <<>>, <<t>>) : t \in FormatArgs}

AllCalls == ResizeCalls \cup QualityCalls \cup BlurCalls \cup SharpenCalls
            \cup GrayscaleCalls \cup RotateCalls \cup BorderCalls \cup CropCalls
            \cup FormatCalls

\* The calls made while terminal operations are in flight: one accepted call
\* of every setter, and two rejected ones.
FewCalls ==
    { Call("resize", <<<<Num(800)>>, <<Num(600)>>>>, <<>>),
      Call("resize", <<<<Num(800)>>, <<Num(5001)>>>>, <<"contain">>),
      Call("quality", <<<<Num(90)>>>>, <<>>),
      Call("quality", <<<<Num(0)>>>>, <<>>),
      Call("blur", <<<<Num(2)>>>>, <<>>),
      Call("sharpen", <<>>, <<>>),
      Call("grayscale", <<>>, <<>>),
      Call("rotate", <<<<Num(360)>>>>, <<>>),
      Call("border", <<<<Num(5)>>>>, <<<<"F", "F", "0", "0", "0", "0">>>>),
      Call("crop", <<<<Num(100)>>, <<Num(100)>>, <<Num(500)>>, <<Num(500)>>>>, <<>>),
      Call("format", <<>>, <<"webp">>) }

NoCall == [op |-> "none", n |-> <<>>, s |-> <<>>, threw |-> FALSE, error |-> ""]

\* what the caller of c observes when the setter ended as r
Outcome(c, r) == [op |-> c.op, n |-> c.n, s |-> c.s, threw |-> r.threw, error |-> r.error]

\* One action per setter.  The builder's record becomes what the setter left
\* behind, whether it returned or threw.
CallResize(C) ==
    \E c \in C \cap ResizeCalls :
        /\ nsetters < MaxSetterCalls /\ nsetters + Len(calls) < MaxOps
        /\ options' = resize(options, c.n[1], c.n[2], c.s).options
        /\ last' = Outcome(c, resize(options, c.n[1], c.n[2], c.s))
        /\ nsetters' = nsetters + 1
        /\ UNCHANGED <<calls, requests, upload, inference>>

CallQuality(C) ==
    \E c \in C \cap QualityCalls :
        /\ nsetters < MaxSetterCalls /\ nsetters + Len(calls) < MaxOps
        /\ options' = quality(options, c.n[1][1]).options
        /\ last' = Outcome(c, quality(options, c.n[1][1]))
        /\ nsetters' = nsetters + 1
        /\ UNCHANGED <<calls, requests, upload, inference>>

CallBlur(C) ==
    \E c \in C \cap BlurCalls :
        /\ nsetters < MaxSetterCalls /\ nsetters + Len(calls) < MaxOps
        /\ options' = blur(options, c.n[1][1]).options
        /\ last' = Outcome(c, blur(options, c.n[1][1]))
        /\ nsetters' = nsetters + 1
        /\ UNCHANGED <<calls, requests, upload, inference>>

CallSharpen(C) ==
    \E c \in C \cap SharpenCalls :
        /\ nsetters < MaxSetterCalls /\ nsetters + Len(calls) < MaxOps
        /\ options' = sharpen(options).options
        /\ last' = Outcome(c, sharpen(options))
        /\ nsetters' = nsetters + 1
        /\ UNCHANGED <<calls, requests, upload, inference>>

CallGrayscale(C) ==
    \E c \in C \cap GrayscaleCalls :
        /\ nsetters < MaxSetterCalls /\ nsetters + Len(calls) < MaxOps
        /\ options' = grayscale(options).options
        /\ last' = Outcome(c, grayscale(options))
        /\ nsetters' = nsetters + 1
        /\ UNCHANGED <<calls, requests, upload, inference>>

CallRotate(C) ==
    \E c \in C \cap RotateCalls :
        /\ nsetters < MaxSetterCalls /\ nsetters + Len(calls) < MaxOps
        /\ options' = rotate(options, c.n[1][1]).options
        /\ last' = Outcome(c, rotate(options, c.n[1][1]))
        /\ nsetters' = nsetters + 1
        /\ UNCHANGED <<calls, requests, upload, inference>>

CallBorder(C) ==
    \E c \in C \cap BorderCalls :
        /\ nsetters < MaxSetterCalls /\ nsetters + Len(calls) < MaxOps
        /\ options' = border(options, c.n[1][1], c.s[1]).options
        /\ last' = Outcome(c, border(options, c.n[1][1], c.s[1]))
        /\ nsetters' = nsetters + 1
        /\ UNCHANGED <<calls, requests, upload, inference>>

CallCrop(C) ==
    \E c \in C \cap CropCalls :
        /\ nsetters < MaxSetterCalls /\ nsetters + Len(calls) < MaxOps
        /\ options' = crop(options, c.n[1][1], c.n[2][1], c.n[3][1], c.n[4][1]).options
        /\ last' = Outcome(c, crop(options, c.n[1][1], c.n[2][1], c.n[3][1], c.n[4][1]))
        /\ nsetters' = nsetters + 1
        /\ UNCHANGED <<calls, requests, upload, inference>>

CallFormat(C) ==
    \E c \in C \cap FormatCalls :
        /\ nsetters < MaxSetterCalls /\ nsetters + Len(calls) < MaxOps
        /\ options' = format(options, c.s[1]).options
        /\ last' = Outcome(c, format(options, c.s[1]))
        /\ nsetters' = nsetters + 1
        /\ UNCHANGED <<calls, requests, upload, inference>>

(***************************************************************************)
(* The transport: HttpClient.request and what the network answers.         *)
(*                                                                         *)
(* A network answer is either a rejection of fetch (no response at all)    *)
(* or a response [status, statusText, body].  A body is what               *)
(* response.json() would make of it: json = FALSE when the body is empty   *)
(* or not JSON, else the properties the code reads (message, error, url).  *)
(***************************************************************************)
NoHeaders == [disposition |-> <<>>, type |-> <<>>]
Rejection(msg) == [kind |-> "reject", message |-> msg, status |-> 0,
                   statusText |-> "", headers |-> NoHeaders, body |-> <<>>]
Response(status, statusText, body) ==
    [kind |-> "response", message |-> <<>>, status |-> status,
     statusText |-> statusText, headers |-> NoHeaders, body |-> <<body>>]
\* a response carrying Content-Disposition and Content-Type headers
WithHeaders(resp, disposition, type) ==
    [resp EXCEPT !.headers = [disposition |-> disposition, type |-> type]]

NotJson == [json |-> FALSE, message |-> <<>>, error |-> <<>>, url |-> <<>>,
            blob |-> ""]
Json(message, error, url) ==
    [json |-> TRUE, message |-> message, error |-> error, url |-> url, blob |-> ""]
\* a binary body: response.blob() gives b, response.json() fails
Blob(b) == [json |-> FALSE, message |-> <<>>, error |-> <<>>, url |-> <<>>, blob |-> b]

\* an Error object: status and statusText exist on an APIError only
Err(name, message) ==
    [name |-> name, message |-> message, status |-> <<>>, statusText |-> <<>>,
     body |-> <<>>]
APIError(message, status, statusText, body) ==
    [name |-> "APIError", message |-> message, status |-> <<status>>,
     statusText |-> <<statusText>>, body |-> body]

Resolved(v) == [state |-> "resolved", value |-> <<v>>, error |-> <<>>]
Rejected(e) == [state |-> "rejected", value |-> <<>>, error |-> <<e>>]
Pending == [state |-> "pending", value |-> <<>>, error |-> <<>>]

\* response.ok
Ok(status) == status >= 200 /\ status <= 299

\* parseResponseBody: the parsed JSON, or null
parseResponseBody(resp) == IF resp.body[1].json THEN resp.body ELSE <<>>

\* body?.message || body?.error || "Unknown error occurred"
ErrorMessage(body) ==
    IF body # <<>> /\ TruthyStr(body[1].message) THEN body[1].message[1]
    ELSE IF body # <<>> /\ TruthyStr(body[1].error) THEN body[1].error[1]
    ELSE <<"Unknown error occurred">>

handleErrorResponse(resp, body) ==
    APIError(ErrorMessage(body), resp.status, resp.statusText, body)

handleRequestError(error) ==
    IF error.name = "APIError" THEN error
    ELSE APIError(IF error.message # <<>> THEN error.message
                  ELSE <<"Network error occurred">>,
                  0, "NetworkError", <<>>)

\* a request whose catch block wraps whatever was thrown in its try block
request_rewrapping(resp) ==
    IF resp.kind = "reject"
    THEN Rejected(handleRequestError(Err("TypeError", resp.message)))
    ELSE LET body == parseResponseBody(resp)
         IN  IF ~Ok(resp.status)
             THEN Rejected(handleRequestError(Err("Error", ErrorMessage(body))))
             ELSE Resolved([data |-> body, status |-> resp.status,
                            headers |-> resp.headers])

\* HttpClient.request, from the moment fetch settles with resp
request(resp) ==
    IF resp.kind = "reject"
    THEN Rejected(handleRequestError(Err("TypeError", resp.message)))
    ELSE LET body == parseResponseBody(resp)
         IN  IF ~Ok(resp.status)
             THEN Rejected(handleRequestError(handleErrorResponse(resp, body)))
             ELSE Resolved([data |-> body, status |-> resp.status,
                            headers |-> resp.headers])

(***************************************************************************)
(* The terminal operations of ImageTransformer.                            *)
(***************************************************************************)
NumericFields == {"w", "h", "q", "blur", "rot"}

\* JSON.stringify of one property value: NaN is written as null
JsonValue(f, v) ==
    IF f \in NumericFields
    THEN (IF v.nan THEN [null |-> TRUE, t |-> 0] ELSE [null |-> FALSE, t |-> v.t])
    ELSE v

\* JSON.stringify(this.options): absent properties are left out
JSONStringify(o) ==
    [f \in Fields |-> IF o[f] = <<>> THEN <<>> ELSE <<JsonValue(f, o[f][1])>>]

TransformUrlPath == "/image/{fileId}/transform-url"

\* HttpClient.post as toURL calls it: the body is serialised when post is called
post(path, body) ==
    [method |-> "POST", target |-> <<path>>, body |-> <<JSONStringify(body)>>,
     accept |-> <<>>]

\* a toURL() that consumes the one-shot flags once they are submitted
toURL_consuming(o) ==
    [options |-> [o EXCEPT !.sharp = <<>>, !.gray = <<>>],
     request |-> post(TransformUrlPath, o)]

\* a toURL() that starts a fresh record once the current one is submitted
toURL_resetting(o) == [options |-> EmptyOptions, request |-> post(TransformUrlPath, o)]

\* the synchronous part of toURL(): the POST it issues and the option record
\* it leaves in the builder
toURL(o) == [options |-> o, request |-> post(TransformUrlPath, o)]

\* toURL() once its POST has settled with resp: response.data.url
toURLResult(resp) ==
    LET r == request(resp)
    IN  IF r.state = "rejected" THEN r
        ELSE IF r.value[1].data = <<>>
        THEN Rejected(Err("TypeError", <<"Cannot read properties of null (reading 'url')">>))
        ELSE Resolved(r.value[1].data[1].url)

\* a transform() that keeps the first URL a toURL() gave it and fetches that
transformFetch_cached(url) ==
    [method |-> "GET", target |-> <<"https://cdn/t1">>, body |-> <<>>,
     accept |-> <<"image/*">>]

\* the fetch transform() makes once toURL() has resolved with url
transformFetch(url) ==
    [method |-> "GET", target |-> url, body |-> <<>>, accept |-> <<"image/*">>]

\* a transform() that does not look at response.ok
transformResult_unchecked(resp) ==
    IF resp.kind = "reject" THEN Rejected(Err("TypeError", resp.message))
    ELSE Resolved(resp.body[1].blob)

\* transform() once its GET has settled with resp
transformResult(resp) ==
    IF resp.kind = "reject" THEN Rejected(Err("TypeError", resp.message))
    ELSE IF ~Ok(resp.status)
    THEN Rejected(Err("Error", <<"Image transformation failed: ",
                                 ToString(resp.status), " ", resp.statusText>>))
    ELSE Resolved(resp.body[1].blob)

\* What the API answers to POST /image/{fileId}/transform-url.
PostAnswers ==
    { Rejection(<<"fetch failed">>),
      Response(200, "OK", Json(<<>>, <<>>, <<"https://cdn/t1">>)),
      Response(200, "OK", Json(<<>>, <<>>, <<"https://cdn/t2">>)),
      Response(200, "OK", Json(<<>>, <<>>, <<>>)),
      Response(200, "OK", NotJson),
      Response(422, "Unprocessable Entity", Json(<<<<"bad options">>>>, <<>>, <<>>)),
      Response(500, "Internal Server Error", NotJson) }

\* What the server of the transformed image answers to the GET.
GetAnswers ==
    { Rejection(<<"fetch failed">>),
      Response(200, "OK", Blob("image-bytes")),
      Response(404, "Not Found", NotJson) }

\* builder.toURL() is called
CallToURL ==
    /\ Len(calls) < MaxTerminalCalls /\ nsetters + Len(calls) < MaxOps
    /\ options' = toURL(options).options
    /\ calls' = Append(calls, [kind |-> "toURL", pc |-> "post", at |-> nsetters,
                               postAnswer |-> <<>>, getAnswer |-> <<>>,
                               url |-> <<>>, result |-> Pending])
    /\ requests' = Append(requests, [call |-> Len(calls) + 1] @@ toURL(options).request)
    /\ UNCHANGED <<last, nsetters, upload, inference>>

\* builder.transform() is called: it starts by calling toURL()
CallTransform ==
    /\ Len(calls) < MaxTerminalCalls /\ nsetters + Len(calls) < MaxOps
    /\ options' = toURL(options).options
    /\ calls' = Append(calls, [kind |-> "transform", pc |-> "post", at |-> nsetters,
                               postAnswer |-> <<>>, getAnswer |-> <<>>,
                               url |-> <<>>, result |-> Pending])
    /\ requests' = Append(requests, [call |-> Len(calls) + 1] @@ toURL(options).request)
    /\ UNCHANGED <<last, nsetters, upload, inference>>

\* the POST of call i fails, or answers without a payload: toURL() rejects, and
\* so does the transform() awaiting it
PostFails(Answers) ==
    \E i \in 1..Len(calls), resp \in Answers :
        /\ calls[i].pc = "post"
        /\ toURLResult(resp).state = "rejected"
        /\ calls' = [calls EXCEPT ![i].pc = "done", ![i].postAnswer = <<resp>>,
                                  ![i].result = toURLResult(resp)]
        /\ UNCHANGED <<options, last, nsetters, requests, upload, inference>>

\* the POST of a toURL() call answers: the call resolves with the URL
ToURLResolves(Answers) ==
    \E i \in 1..Len(calls), resp \in Answers :
        /\ calls[i].pc = "post"
        /\ calls[i].kind = "toURL"
        /\ toURLResult(resp).state = "resolved"
        /\ calls' = [calls EXCEPT ![i].pc = "done", ![i].postAnswer = <<resp>>,
                                  ![i].result = toURLResult(resp),
                                  ![i].url = toURLResult(resp).value[1]]
        /\ UNCHANGED <<options, last, nsetters, requests, upload, inference>>

\* the toURL() inside a transform() call resolves: transform() fetches the URL
TransformFetches(Answers) ==
    \E i \in 1..Len(calls), resp \in Answers :
        /\ calls[i].pc = "post"
        /\ calls[i].kind = "transform"
        /\ toURLResult(resp).state = "resolved"
        /\ calls' = [calls EXCEPT ![i].pc = "get", ![i].postAnswer = <<resp>>,
                                  ![i].url = toURLResult(resp).value[1]]
        /\ requests' = Append(requests, [call |-> i]
                                @@ transformFetch(toURLResult(resp).value[1]))
        /\ UNCHANGED <<options, last, nsetters, upload, inference>>

\* the GET of a transform() call settles
TransformSettles(Answers) ==
    \E i \in 1..Len(calls), resp \in Answers :
        /\ calls[i].pc = "get"
        /\ calls' = [calls EXCEPT ![i].pc = "done", ![i].getAnswer = <<resp>>,
                                  ![i].result = transformResult(resp)]
        /\ UNCHANGED <<options, last, nsetters, requests, upload, inference>>

\* The answers drawn while setters are interleaved with terminal calls.
FewPostAnswers ==
    { Rejection(<<"fetch failed">>),
      Response(200, "OK", Json(<<>>, <<>>, <<"https://cdn/t1">>)) }
FewGetAnswers ==
    { Response(200, "OK", Blob("image-bytes")) }

NoUpload ==
    [pc |-> "idle", file |-> <<>>, options |-> <<>>, window |-> FALSE,
     handler |-> "none", read |-> <<>>, fetchAnswer |-> <<>>, form |-> <<>>,
     postAnswer |-> <<>>, result |-> Pending]

\* no lookup made, on a FileAPI over the registry types
NoInference(types) ==
    [allowedFileTypes |-> types, mime |-> <<>>, extension |-> <<>>,
     filename |-> <<>>, inferred |-> <<>>]

InitSetters ==
    /\ options = EmptyOptions
    /\ last = NoCall
    /\ nsetters = 0
    /\ calls = <<>>
    /\ requests = <<>>
    /\ upload = NoUpload
    /\ inference = NoInference(<<>>)

NextSetters ==
    \/ CallResize(AllCalls)
    \/ CallQuality(AllCalls)
    \/ CallBlur(AllCalls)
    \/ CallSharpen(AllCalls)
    \/ CallGrayscale(AllCalls)
    \/ CallRotate(AllCalls)
    \/ CallBorder(AllCalls)
    \/ CallCrop(AllCalls)
    \/ CallFormat(AllCalls)

\* the setters alone, over the full range of arguments
SpecSetters == InitSetters /\ [][NextSetters]_vars

InitBuilder == InitSetters

NextBuilder ==
    \/ CallResize(FewCalls)
    \/ CallQuality(FewCalls)
    \/ CallBlur(FewCalls)
    \/ CallSharpen(FewCalls)
    \/ CallGrayscale(FewCalls)
    \/ CallRotate(FewCalls)
    \/ CallBorder(FewCalls)
    \/ CallCrop(FewCalls)
    \/ CallFormat(FewCalls)
    \/ CallToURL
    \/ CallTransform
    \/ PostFails(FewPostAnswers)
    \/ ToURLResolves(FewPostAnswers)
    \/ TransformFetches(FewPostAnswers)
    \/ TransformSettles(FewGetAnswers)

\* the builder with its terminal operations in flight
SpecBuilder == InitBuilder /\ [][NextBuilder]_vars

InitTransform == InitSetters

NextTransform ==
    \/ CallToURL
    \/ CallTransform
    \/ PostFails(PostAnswers)
    \/ ToURLResolves(PostAnswers)
    \/ TransformFetches(PostAnswers)
    \/ TransformSettles(GetAnswers)

\* the terminal operations alone, over every kind of answer
SpecTransform == InitTransform /\ [][NextTransform]_vars

(***************************************************************************)
(* Properties of the setters (checked under SpecSetters).                  *)
(***************************************************************************)
LastIs(op) == last.op = op
Arg(i) == last.n[i]

\* C1: resize(0, ...), quality(0), quality(101), blur(0.1), blur(1001),
\* rotate(361), border(0, "zz0000") and crop(0,0,0,1) each throw, and the
\* boundary values 1, 100, 0.3, 1000, -360 and 360 are accepted.
C1_RangeValidation ==
    /\ (LastIs("resize") /\ Arg(1) = <<Num(0)>>) => last.threw
    /\ (LastIs("quality") /\ Arg(1)[1] \in {Num(0), Num(101)}) => last.threw
    /\ (LastIs("blur") /\ Arg(1)[1] \in {Tenths(1), Num(1001)}) => last.threw
    /\ (LastIs("rotate") /\ Arg(1)[1] = Num(361)) => last.threw
    /\ (LastIs("border") /\ Arg(1)[1] = Num(0)) => last.threw
    /\ (LastIs("crop") /\ Arg(3)[1] = Num(0)) => last.threw
    /\ (LastIs("resize") /\ Arg(1) = <<Num(1)>> /\ Arg(2) = <<>>) => ~last.threw
    /\ (LastIs("quality") /\ Arg(1)[1] \in {Num(1), Num(100)}) => ~last.threw
    /\ (LastIs("blur") /\ Arg(1)[1] \in {Tenths(3), Num(1000)}) => ~last.threw
    /\ (LastIs("rotate") /\ Arg(1)[1] \in {Num(-360), Num(360)}) => ~last.threw

InRange(m, lo, hi) == m = <<>> \/ (~m[1].nan /\ lo.t <= m[1].t /\ m[1].t <= hi.t)

\* a decimal numeral (digits, optionally a point and digits) of value >= 1
IsNumeralAtLeastOne(s) ==
    LET parts == Split(s, {"."})
    IN  /\ Len(parts) \in {1, 2}
        /\ \A k \in 1..Len(parts) :
              Len(parts[k]) > 0 /\ \A i \in 1..Len(parts[k]) : parts[k][i] \in Digits
        /\ \E i \in 1..Len(parts[1]) : parts[1][i] # "0"

\* "<width>_<6 hex digits>" with width >= 1
IsBorderSpec(s) ==
    LET parts == Split(s, {"_"})
    IN  Len(parts) = 2 /\ IsNumeralAtLeastOne(parts[1]) /\ IsHexColor(parts[2])

\* "x,y,w,h" with w >= 1 and h >= 1
IsCropSpec(s) ==
    LET parts == Split(s, {","})
    IN  Len(parts) = 4 /\ IsNumeralAtLeastOne(parts[3]) /\ IsNumeralAtLeastOne(parts[4])

\* C2: in every reachable builder state every field present in the option
\* record satisfies its constraint.
C2_FieldsValid ==
    /\ InRange(options.w, Num(1), Num(5000))
    /\ InRange(options.h, Num(1), Num(5000))
    /\ InRange(options.q, Num(1), Num(100))
    /\ InRange(options.blur, Tenths(3), Num(1000))
    /\ InRange(options.rot, Num(-360), Num(360))
    /\ options.border # <<>> => IsBorderSpec(options.border[1])
    /\ options.crop # <<>> => IsCropSpec(options.crop[1])

\* the fields an accepted call writes, and whether a call is accepted (neither
\* depends on the record the call is made on)
Accepted(c) == ~Apply(EmptyOptions, c).threw
Writes(c) == {f \in Fields : Apply(EmptyOptions, c).options[f] # <<>>}

RECURSIVE ApplyAll(_, _)
ApplyAll(o, cs) ==
    IF cs = <<>> THEN o ELSE ApplyAll(Apply(o, Head(cs)).options, Tail(cs))

\* the calls whose order is permuted: every setter, resize in its three shapes
ChainCalls ==
    << Call("resize", <<<<Num(800)>>, <<Num(600)>>>>, <<>>),
       Call("resize", <<<<Num(1)>>, <<>>>>, <<"contain">>),
       Call("resize", <<<<>>, <<Num(5000)>>>>, <<>>),
       Call("quality", <<<<Num(90)>>>>, <<>>),
       Call("blur", <<<<Num(2)>>>>, <<>>),
       Call("sharpen", <<>>, <<>>),
       Call("grayscale", <<>>, <<>>),
       Call("rotate", <<<<Num(360)>>>>, <<>>),
       Call("border", <<<<Num(5)>>>>, <<<<"F", "F", "0", "0", "0", "0">>>>),
       Call("crop", <<<<Num(100)>>, <<Num(100)>>, <<Num(500)>>, <<Num(500)>>>>, <<>>),
       Call("format", <<>>, <<"webp">>) >>

DisjointPairs ==
    {<<ChainCalls[i], ChainCalls[j]>> : <<i, j>> \in
        {q \in (1..Len(ChainCalls)) \X (1..Len(ChainCalls)) :
            /\ q[1] < q[2]
            /\ Accepted(ChainCalls[q[1]]) /\ Accepted(ChainCalls[q[2]])
            /\ Writes(ChainCalls[q[1]]) \cap Writes(ChainCalls[q[2]]) = {}}}

ExampleChain == << Call("resize", <<<<Num(800)>>, <<Num(600)>>>>, <<>>),
                   Call("quality", <<<<Num(90)>>>>, <<>>),
                   Call("grayscale", <<>>, <<>>) >>
Permutations3 == {<<1, 2, 3>>, <<1, 3, 2>>, <<2, 1, 3>>, <<2, 3, 1>>, <<3, 1, 2>>, <<3, 2, 1>>}

\* C5: from any builder state, accepted setter calls that write disjoint
\* fields give the same option record in whichever order they are made:
\* any two such calls commute, and the six orders of resize(800,600),
\* quality(90), grayscale() agree.
C5_OrderIndependent ==
    /\ \A p \in DisjointPairs :
          ApplyAll(options, <<p[1], p[2]>>) = ApplyAll(options, <<p[2], p[1]>>)
    /\ \A pi \in Permutations3 :
          ApplyAll(options, <<ExampleChain[pi[1]], ExampleChain[pi[2]], ExampleChain[pi[3]]>>)
            = ApplyAll(options, ExampleChain)

\* two accepted setters writing disjoint fields have both acted
C5_Witness ==
    /\ nsetters = 2
    /\ options.q = <<Num(90)>>
    /\ options.w = <<Num(800)>> /\ options.h = <<Num(600)>> /\ options.fit = <<"cover">>
    /\ LastIs("quality")

(***************************************************************************)
(* Properties of the terminal operations.                                  *)
(***************************************************************************)
\* the requests call i has issued, by method, in the order issued
RequestsIn(reqs, i, method) ==
    SelectSeq(reqs, LAMBDA r : r.call = i /\ r.method = method)
RequestsOf(i, method) == RequestsIn(requests, i, method)

\* the option record call i submitted
SubmittedIn(reqs, i) == RequestsIn(reqs, i, "POST")[1].body[1]
Submitted(i) == SubmittedIn(requests, i)

TerminalStep == calls' # calls
SetterStep == nsetters' # nsetters

\* C3 (checked under SpecBuilder): a toURL() call, from its invocation to its
\* resolution or rejection, leaves the option record as it was, and two
\* toURL() calls with no setter call between them submit identical records.
C3_ToURLPure ==
    [][ /\ TerminalStep => options' = options
        /\ \A i, j \in 1..Len(calls') :
              calls'[i].at = calls'[j].at => Submitted(i)' = Submitted(j)'
      ]_vars

\* two calls made back to back on a non-empty record, one resolved, one rejected
C3_Witness ==
    /\ Len(calls) = 2
    /\ calls[1].at = 2 /\ calls[2].at = 2
    /\ options.gray = <<TRUE>> /\ options.q = <<Num(90)>>
    /\ calls[1].result.state = "resolved"
    /\ calls[2].result.state = "rejected"

LastCall == Call(last.op, last.n, last.s)

\* C4 (checked under SpecBuilder): there is no lock after submit.  However
\* many terminal calls were made: a setter call is accepted or rejected by its
\* arguments alone and changes only the fields it writes; no step removes a
\* field from the record; a terminal step changes no field; and a terminal
\* call submits the whole current record, so a later submission holds the
\* fields of every earlier one (whose request no step changes) and the fields
\* set since.
C4_NoLockAfterSubmit ==
    [][ /\ SetterStep =>
              /\ last'.threw = ~Accepted(LastCall')
              /\ \A f \in Fields \ Writes(LastCall') : options'[f] = options[f]
              /\ \A f \in Writes(LastCall') :
                    options'[f] = Apply(EmptyOptions, LastCall').options[f]
        /\ \A f \in Fields : options[f] # <<>> => options'[f] # <<>>
        /\ TerminalStep => \A f \in Fields : options'[f] = options[f]
        /\ Len(calls') > Len(calls) =>
              SubmittedIn(requests', Len(calls')) = JSONStringify(options)
        /\ SubSeq(requests', 1, Len(requests)) = requests
        /\ Len(calls') > Len(calls) =>
              \A i \in 1..Len(calls) : \A f \in Fields :
                  Submitted(i)[f] # <<>> => SubmittedIn(requests', Len(calls'))[f] # <<>>
      ]_vars

\* a setter, a resolved toURL(), another setter, and a second terminal call
\* whose record holds the field set before the first and the one set after it
C4_Witness ==
    /\ Len(calls) = 2
    /\ calls[1].at = 1 /\ calls[1].result.state = "resolved"
    /\ calls[2].at = 2
    /\ Submitted(1).gray = <<TRUE>> /\ Submitted(1).q = <<>>
    /\ Submitted(2).gray = <<TRUE>> /\ Submitted(2).q # <<>>
    /\ ~last.threw

IsTransformError(e) ==
    e.name = "Error" /\ e.message[1] = "Image transformation failed: "

\* every way toURL() can fail
ToURLFailures ==
    {toURLResult(a).error[1] : a \in {x \in PostAnswers : toURLResult(x).state = "rejected"}}

PostFailed(a) == a.kind = "reject" \/ ~Ok(a.status)

\* C6 (checked under SpecTransform): transform() first POSTs and issues its
\* one GET, with Accept: image/*, against the returned URL only once the POST
\* has resolved; a failed POST means no GET and the POST's APIError (status 0,
\* "NetworkError" for a transport failure) reaches the caller; an unsuccessful
\* GET response fails the call with the transform-fetch error, which no
\* toURL() failure equals; a successful one resolves with the GET's body.
C6_TransformSequence ==
    \A i \in 1..Len(calls) :
      LET c == calls[i]
          gets == RequestsOf(i, "GET")
      IN  /\ Len(RequestsOf(i, "POST")) = 1
          /\ Len(gets) <= 1
          /\ c.kind = "toURL" => gets = <<>>
          /\ c.kind = "transform" =>
              /\ c.postAnswer = <<>> => gets = <<>>
              /\ (c.postAnswer # <<>> /\ PostFailed(c.postAnswer[1])) =>
                    /\ gets = <<>>
                    /\ c.result.state = "rejected"
                    /\ c.result.error[1].name = "APIError"
                    /\ c.postAnswer[1].kind = "reject" =>
                          /\ c.result.error[1].status = <<0>>
                          /\ c.result.error[1].statusText = <<"NetworkError">>
                    /\ c.postAnswer[1].kind = "response" =>
                          c.result.error[1].status = <<c.postAnswer[1].status>>
              /\ gets # <<>> =>
                    /\ c.postAnswer # <<>> /\ Ok(c.postAnswer[1].status)
                    /\ gets[1].target = c.postAnswer[1].body[1].url
                    /\ gets[1].accept = <<"image/*">>
              /\ (c.postAnswer # <<>> /\ toURLResult(c.postAnswer[1]).state = "resolved")
                    => Len(gets) = 1
              /\ (c.getAnswer # <<>> /\ c.getAnswer[1].kind = "response") =>
                    IF Ok(c.getAnswer[1].status)
                    THEN c.result = Resolved(c.getAnswer[1].body[1].blob)
                    ELSE /\ c.result.state = "rejected"
                         /\ IsTransformError(c.result.error[1])
                         /\ c.result.error[1] \notin ToURLFailures
                         /\ \A e \in ToURLFailures : e.name # c.result.error[1].name

\* one transform() ended by a failed POST, another by an unsuccessful GET
C6_Witness ==
    /\ Len(calls) = 2
    /\ calls[1].kind = "transform" /\ calls[2].kind = "transform"
    /\ calls[1].postAnswer # <<>> /\ PostFailed(calls[1].postAnswer[1])
    /\ calls[1].result.state = "rejected"
    /\ calls[2].getAnswer # <<>> /\ calls[2].getAnswer[1].kind = "response"
    /\ ~Ok(calls[2].getAnswer[1].status)
    /\ calls[2].result.state = "rejected"

(***************************************************************************)
(* FileAPI: the MIME registry and the normalisation of upload inputs.      *)
(*                                                                         *)
(* Every environment modelled defines the globals File, Buffer and         *)
(* FormData that upload() evaluates unconditionally (files.ts:19-23); as   *)
(* line 21 evaluates File before any handler runs, the branch of           *)
(* handleLocalFilePath for a missing File constructor (files.ts:244-256)   *)
(* is never taken.                                                         *)
(***************************************************************************)
OctetStream == <<"a", "p", "p", "l", "i", "c", "a", "t", "i", "o", "n", "/", "o", "c", "t", "e", "t", "-", "s", "t", "r", "e", "a", "m">>

\* config.uploads.allowedFileTypes: MIME type -> extensions, in insertion order
allowedFileTypes ==
    << [mime |-> <<"i", "m", "a", "g", "e", "/", "j", "p", "e", "g">>, extensions |-> <<<<".", "j", "p", "g">>, <<".", "j", "p", "e", "g">>>>],
       [mime |-> <<"i", "m", "a", "g", "e", "/", "p", "n", "g">>, extensions |-> <<<<".", "p", "n", "g">>>>],
       [mime |-> <<"t", "e", "x", "t", "/", "p", "l", "a", "i", "n">>, extensions |-> <<<<".", "t", "x", "t">>>>] >>

Includes(seq, x) == \E i \in 1..Len(seq) : seq[i] = x

\* getMimeTypeFromFilename with this.allowedFileTypes = types: the entries are
\* scanned in insertion order, the first one that lists the extension wins
MimeTypeFromFilename(types, filename) ==
    LET lastDotIndex == LastIndexOf(filename, ".")
    IN  IF lastDotIndex = 0 THEN OctetStream
        ELSE LET extension == ToLowerCase(SubSeq(filename, lastDotIndex, Len(filename)))
                 hits == {i \in 1..Len(types) : Includes(types[i].extensions, extension)}
             IN  IF hits = {} THEN OctetStream
                 ELSE types[CHOOSE i \in hits : \A j \in hits : i <= j].mime

getMimeTypeFromFilename(filename) == MimeTypeFromFilename(allowedFileTypes, filename)

\* getExtensionFromMimeType with this.allowedFileTypes = types
ExtensionFromMimeType(types, mimeType) ==
    LET hits == {i \in 1..Len(types) : types[i].mime = mimeType}
    IN  IF hits # {} /\ Len(types[CHOOSE i \in hits : TRUE].extensions) > 0
        THEN LET ext == types[CHOOSE i \in hits : TRUE].extensions[1]
             IN  IF StartsWith(ext, <<".">>) THEN Drop(ext, 1) ELSE ext
        ELSE <<"b", "i", "n">>

getExtensionFromMimeType(mimeType) == ExtensionFromMimeType(allowedFileTypes, mimeType)

\* new File([content], name, {type}): the constructor lower-cases the type
NewFile(content, name, type) ==
    [name |-> name, type |-> ToLowerCase(type), content |-> content, original |-> FALSE]

\* how a handler ends: with the part it appended to the form, or by throwing
Appended(part) == [threw |-> FALSE, error |-> <<>>, part |-> <<part>>]
Thrown(e) == [threw |-> TRUE, error |-> <<e>>, part |-> <<>>]

\* options?.x || fallback
OrElse(m, fallback) == IF TruthyStr(m) THEN m[1] ELSE fallback

handleFileObject(file, opts) ==
    LET filename == OrElse(opts.filename, file.name)
        given == OrElse(opts.mimeType, file.type)
        mimeType == IF given = OctetStream \/ given = <<>>
                    THEN getMimeTypeFromFilename(filename) ELSE given
    IN  IF filename # file.name \/ mimeType # file.type
        THEN Appended(NewFile(file.content, filename, mimeType))
        ELSE Appended([name |-> file.name, type |-> file.type,
                       content |-> file.content, original |-> TRUE])

handleBufferObject(buffer, opts) ==
    LET filename == OrElse(opts.filename, <<"f", "i", "l", "e">>)
        mimeType == OrElse(opts.mimeType, getMimeTypeFromFilename(filename))
    IN  Appended(NewFile(buffer.content, filename, mimeType))

AlphaNum == Letters \cup Digits
SubtypeChars == AlphaNum \cup {"-", ".", "+"}
Base64Marker == <<";", "b", "a", "s", "e", "6", "4", ",">>

\* dataUrl.match(/^data:([a-zA-Z0-9]+\/[a-zA-Z0-9-.+]+);base64,(.*)$/):
\* <<>> when there is no match, else <<[mime, data]>>
MatchDataUrl(dataUrl) ==
    IF ~StartsWith(dataUrl, <<"d", "a", "t", "a", ":">>) THEN <<>>
    ELSE
      LET r1 == Drop(dataUrl, 5)
          n1 == RunLength(r1, AlphaNum)
          r2 == Drop(r1, n1)
      IN  IF n1 = 0 \/ ~StartsWith(r2, <<"/">>) THEN <<>>
          ELSE
            LET r3 == Drop(r2, 1)
                n2 == RunLength(r3, SubtypeChars)
                r4 == Drop(r3, n2)
            IN  IF n2 = 0 \/ ~StartsWith(r4, Base64Marker) THEN <<>>
                ELSE
                  LET data == Drop(r4, Len(Base64Marker))
                  IN  IF \E i \in 1..Len(data) : data[i] \in LineTerminators THEN <<>>
                      ELSE <<[mime |-> SubSeq(r1, 1, n1) \o <<"/">> \o SubSeq(r3, 1, n2),
                              data |-> data]>>

Base64Alphabet == AlphaNum \cup {"+", "/"}

\* atob(data) succeeds: forgiving-base64 decoding
AtobAccepts(data) ==
    LET d0 == SelectSeq(data, LAMBDA c : c \notin Whitespace \cup {"\f"})
        d1 == IF Len(d0) % 4 = 0 /\ Len(d0) >= 2 /\ d0[Len(d0)] = "="
              THEN (IF d0[Len(d0) - 1] = "=" THEN SubSeq(d0, 1, Len(d0) - 2)
                    ELSE SubSeq(d0, 1, Len(d0) - 1))
              ELSE d0
    IN  Len(d1) % 4 # 1 /\ \A i \in 1..Len(d1) : d1[i] \in Base64Alphabet

handleDataUrl(dataUrl, opts) ==
    LET matches == MatchDataUrl(dataUrl)
    IN  IF matches = <<>> THEN Thrown(Err("Error", <<"Invalid data URL format">>))
        ELSE IF ~AtobAccepts(matches[1].data)
        THEN Thrown(Err("InvalidCharacterError",
                        <<"The string to be decoded is not correctly encoded.">>))
        ELSE
          LET mimeType == matches[1].mime
              filename == OrElse(opts.filename,
                                 <<"f", "i", "l", "e", ".">> \o getExtensionFromMimeType(mimeType))
          IN  Appended(NewFile([from |-> "atob", of |-> matches[1].data],
                               filename, mimeType))

FilenameKey == <<"f", "i", "l", "e", "n", "a", "m", "e", "=", "\"">>

\* contentDisposition.match(/filename="(.+)"/): <<>> or <<capture>>.  The match
\* starts at the leftmost filename=" that has a closing quote after at least
\* one character on the same line, and .+ runs to the last such quote.
MatchFilename(cd) ==
    LET Closes(p, q) ==
            /\ q > p + Len(FilenameKey) /\ q <= Len(cd) /\ cd[q] = "\""
            /\ \A k \in (p + Len(FilenameKey))..(q - 1) : cd[k] \notin LineTerminators
        Starts == {p \in 1..Len(cd) :
                      /\ StartsWith(Drop(cd, p - 1), FilenameKey)
                      /\ \E q \in 1..Len(cd) : Closes(p, q)}
    IN  IF Starts = {} THEN <<>>
        ELSE LET p == CHOOSE x \in Starts : \A y \in Starts : x <= y
                 q == CHOOSE x \in 1..Len(cd) :
                          Closes(p, x) /\ \A y \in 1..Len(cd) : Closes(p, y) => y <= x
             IN  <<SubSeq(cd, p + Len(FilenameKey), q - 1)>>

\* the part of handleRemoteUrl that names the file (files.ts:155-180)
RemoteFilename(url, opts, headers) ==
    IF TruthyStr(opts.filename) THEN opts.filename[1]
    ELSE
      LET filenameMatch == IF TruthyStr(headers.disposition)
                           THEN MatchFilename(headers.disposition[1]) ELSE <<>>
      IN  IF TruthyStr(filenameMatch) THEN filenameMatch[1]
          ELSE
            LET urlParts == Split(url, {"/"})
                last0 == urlParts[Len(urlParts)]
                queryIndex == IndexOf(last0, "?")
                urlFilename == IF queryIndex # 0 THEN SubSeq(last0, 1, queryIndex - 1)
                               ELSE last0
            IN  IF urlFilename # <<>> THEN urlFilename ELSE <<"d", "o", "w", "n", "l", "o", "a", "d">>

\* the part of handleRemoteUrl that types the file (files.ts:183-196)
RemoteMimeType(filename, opts, headers) ==
    IF TruthyStr(opts.mimeType) THEN opts.mimeType[1]
    ELSE
      LET fromHeader == IF TruthyStr(headers.type)
                        THEN <<Trim(Split(headers.type[1], {";"})[1])>> ELSE <<>>
      IN  IF ~TruthyStr(fromHeader) \/ fromHeader[1] = OctetStream
          THEN getMimeTypeFromFilename(filename)
          ELSE fromHeader[1]

\* a handleRemoteUrl whose catch block logs the failure and returns
handleRemoteUrl_swallowing(url, opts, response) ==
    IF response.kind = "reject" \/ ~Ok(response.status)
    THEN [threw |-> FALSE, error |-> <<>>, part |-> <<>>]
    ELSE LET filename == RemoteFilename(url, opts, response.headers)
         IN  Appended(NewFile(response.body[1].blob, filename,
                              RemoteMimeType(filename, opts, response.headers)))

\* handleRemoteUrl, from the moment fetch(url) settles with response
handleRemoteUrl(url, opts, response) ==
    IF response.kind = "reject"
    THEN Thrown(Err("Error", <<"Failed to process remote URL: ">> \o response.message))
    ELSE IF ~Ok(response.status)
    THEN Thrown(Err("Error", <<"Failed to process remote URL: ",
                               "Failed to fetch remote file: ", response.statusText>>))
    ELSE LET filename == RemoteFilename(url, opts, response.headers)
         IN  Appended(NewFile(response.body[1].blob, filename,
                              RemoteMimeType(filename, opts, response.headers)))

\* handleLocalFilePath; read is what fs.readFileSync(filePath) does
handleLocalFilePath(filePath, opts, window, read) ==
    LET pathParts == Split(filePath, {"/", "\\"})
        filename == OrElse(opts.filename, pathParts[Len(pathParts)])
        mimeType == OrElse(opts.mimeType, getMimeTypeFromFilename(filename))
    IN  IF window
        THEN Thrown(Err("Error",
                        <<"File path access is not supported in browser environments">>))
        ELSE IF ~read.ok
        THEN Thrown(Err("Error", <<"Failed to read file from path: ", read.message>>))
        ELSE Appended(NewFile(read.content, filename, mimeType))

\* a handleStringInput that recognises http:// only
handleStringInput_httpOnly(input) ==
    IF StartsWith(input, <<"d", "a", "t", "a", ":">>) THEN "handleDataUrl"
    ELSE IF StartsWith(input, <<"h", "t", "t", "p", ":", "/", "/">>) THEN "handleRemoteUrl"
    ELSE "handleLocalFilePath"

\* handleStringInput: the handler a string input is given to
handleStringInput(input) ==
    IF StartsWith(input, <<"d", "a", "t", "a", ":">>) THEN "handleDataUrl"
    ELSE IF StartsWith(input, <<"h", "t", "t", "p", ":", "/", "/">>) \/ StartsWith(input, <<"h", "t", "t", "p", "s", ":", "/", "/">>)
    THEN "handleRemoteUrl"
    ELSE "handleLocalFilePath"

\* the dispatch of upload (files.ts:21-29)
Dispatch(file) ==
    IF file.kind = "File" THEN "handleFileObject"
    ELSE IF file.kind = "Buffer" THEN "handleBufferObject"
    ELSE IF file.kind = "string" THEN handleStringInput(file.text)
    ELSE "unsupported"

\* a customFilename field appended for every supplied filename
customFilename_always(file, opts) ==
    IF TruthyStr(opts.filename) THEN opts.filename ELSE <<>>

\* the customFilename field upload appends, if any (files.ts:31-33)
customFilename(file, opts) ==
    IF TruthyStr(opts.filename) /\ file.kind # "File" THEN opts.filename ELSE <<>>

\* the FormData upload posts once the handler has ended as done
FormData(file, opts, done) ==
    [file |-> done.part, customFilename |-> customFilename(file, opts)]

uploadPost(form) ==
    [call |-> 1, method |-> "POST", target |-> <<"/upload">>, body |-> <<form>>,
     accept |-> <<>>]

(***************************************************************************)
(* FileAPI.upload as a process: the call, the remote fetch it may await,   *)
(* and the POST /upload it awaits.                                         *)
(***************************************************************************)
FileInput(name, type) ==
    [kind |-> "File", name |-> name, type |-> type, content |-> "file-bytes",
     text |-> <<>>]
BufferInput == [kind |-> "Buffer", name |-> <<>>, type |-> <<>>,
                content |-> "buffer-bytes", text |-> <<>>]
StringInput(text) == [kind |-> "string", name |-> <<>>, type |-> <<>>,
                      content |-> "", text |-> text]
\* a value that is neither a File, nor a Buffer, nor a string
OtherInput == [kind |-> "other", name |-> <<>>, type |-> <<>>, content |-> "",
               text |-> <<>>]

UploadInputs ==
    { FileInput(<<"p", "h", "o", "t", "o", ".", "p", "n", "g">>, <<"i", "m", "a", "g", "e", "/", "p", "n", "g">>),
      FileInput(<<"n", "o", "t", "e", "s", ".", "t", "x", "t">>, <<>>),
      FileInput(<<"b", "l", "o", "b">>, OctetStream),
      BufferInput,
      StringInput(<<"d", "a", "t", "a", ":", "t", "e", "x", "t", "/", "p", "l", "a", "i", "n", ";", "b", "a", "s", "e", "6", "4", ",", "S", "G", "k", "=">>),
      StringInput(<<"d", "a", "t", "a", ":", "i", "m", "a", "g", "e", "/", "g", "i", "f", ";", "b", "a", "s", "e", "6", "4", ",", "R", "0", "l", "G">>),
      StringInput(<<"d", "a", "t", "a", ":", "t", "e", "x", "t", "/", "p", "l", "a", "i", "n", ",", "h", "i">>),
      StringInput(<<"d", "a", "t", "a", ":", "h", "t", "t", "p", ":", "/", "/", "h", "/", "a", ".", "p", "n", "g">>),
      StringInput(<<"d", "a", "t", "a", ":", "t", "e", "x", "t", "/", "p", "l", "a", "i", "n", ";", "b", "a", "s", "e", "6", "4", ",", "!", "!">>),
      StringInput(<<"h", "t", "t", "p", ":", "/", "/", "h", "/", "a", ".", "p", "n", "g">>),
      StringInput(<<"h", "t", "t", "p", "s", ":", "/", "/", "h", "/", "p", "/", "d", "o", "c", ".", "t", "x", "t", "?", "v", "=", "1">>),
      StringInput(<<"h", "t", "t", "p", "s", ":", "/", "/", "h", "/">>),
      StringInput(<<"h", "t", "t", "p", "s", ":", "/", "/", "h", "/", "p", "/">>),
      StringInput(<<"h", "t", "t", "p", "s", ":", "/", "/", "h", "/", "a", ".", "p", "n", "g", "?", "n", "e", "x", "t", "=", "/", "b">>),
      StringInput(<<"H", "T", "T", "P", ":", "/", "/", "h", "/", "a", ".", "p", "n", "g">>),
      StringInput(<<"/", "t", "m", "p", "/", "a", ".", "t", "x", "t">>),
      StringInput(<<"C", ":", "\\", "d", "\\", "b", ".", "J", "P", "G">>),
      StringInput(<<"d", "a", "t", "a", ".", "t", "x", "t">>),
      OtherInput }

\* the options argument: an omitted options object is one with no property
UploadOptions ==
    [filename : {<<>>, <<<<>>>>, <<<<"c", "u", "s", "t", "o", "m", "-", "n", "a", "m", "e", ".", "j", "p", "g">>>>},
     mimeType : {<<>>, <<OctetStream>>, <<<<"i", "m", "a", "g", "e", "/", "j", "p", "e", "g">>>>}]

\* what fs.readFileSync does
FsAnswers == { [ok |-> TRUE, content |-> "disk-bytes", message |-> ""],
               [ok |-> FALSE, content |-> "", message |-> "ENOENT: no such file or directory"] }

\* what the remote host answers to the fetch of handleRemoteUrl
RemoteAnswers ==
    { Rejection(<<"fetch failed">>),
      Response(404, "Not Found", NotJson),
      Response(200, "OK", Blob("remote-bytes")),
      WithHeaders(Response(200, "OK", Blob("remote-bytes")),
                  <<<<"a", "t", "t", "a", "c", "h", "m", "e", "n", "t", ";", " ", "f", "i", "l", "e", "n", "a", "m", "e", "=", "\"", "r", ".", "p", "n", "g", "\"">>>>, <<<<"t", "e", "x", "t", "/", "p", "l", "a", "i", "n", ";", " ", "c", "h", "a", "r", "s", "e", "t", "=", "u", "t", "f", "-", "8">>>>),
      WithHeaders(Response(200, "OK", Blob("remote-bytes")),
                  <<<<"i", "n", "l", "i", "n", "e">>>>, <<OctetStream>>) }

\* what the API answers to POST /upload
UploadAnswers ==
    { Rejection(<<"fetch failed">>),
      Response(200, "OK", Json(<<>>, <<>>, <<>>)),
      Response(413, "Payload Too Large", Json(<<<<"file too large">>>>, <<>>, <<>>)) }

Unsupported == Thrown(Err("Error", <<"Unsupported file type for upload">>))

\* upload(file, options) is called: everything up to its first await
CallUpload ==
    \E file \in UploadInputs, opts \in UploadOptions, window \in BOOLEAN, fs \in FsAnswers :
      LET h == Dispatch(file)
          reads == h = "handleLocalFilePath" /\ ~window
          started == [NoUpload EXCEPT !.file = <<file>>, !.options = <<opts>>,
                                      !.window = window, !.handler = h,
                                      !.read = IF reads THEN <<[path |-> file.text] @@ fs>>
                                               ELSE <<>>]
          done == CASE h = "handleFileObject" -> handleFileObject(file, opts)
                    [] h = "handleBufferObject" -> handleBufferObject(file, opts)
                    [] h = "handleDataUrl" -> handleDataUrl(file.text, opts)
                    [] h = "handleLocalFilePath" ->
                          handleLocalFilePath(file.text, opts, window, fs)
                    [] OTHER -> Unsupported
      IN  /\ upload.pc = "idle"
          /\ IF h = "handleRemoteUrl"
             THEN /\ upload' = [started EXCEPT !.pc = "fetch"]
                  /\ requests' = Append(requests,
                        [call |-> 1, method |-> "GET", target |-> <<file.text>>,
                         body |-> <<>>, accept |-> <<>>])
             ELSE IF done.threw
             THEN /\ upload' = [started EXCEPT !.pc = "done",
                                               !.result = Rejected(done.error[1])]
                  /\ UNCHANGED requests
             ELSE /\ upload' = [started EXCEPT !.pc = "post",
                                               !.form = <<FormData(file, opts, done)>>]
                  /\ requests' = Append(requests, uploadPost(FormData(file, opts, done)))
          /\ UNCHANGED <<options, last, nsetters, calls, inference>>

\* the fetch of a remote URL settles: handleRemoteUrl and the rest of upload run
RemoteFetchSettles ==
    \E response \in RemoteAnswers :
      LET file == upload.file[1]
          opts == upload.options[1]
          done == handleRemoteUrl(file.text, opts, response)
      IN  /\ upload.pc = "fetch"
          /\ IF done.threw
             THEN /\ upload' = [upload EXCEPT !.pc = "done", !.fetchAnswer = <<response>>,
                                              !.result = Rejected(done.error[1])]
                  /\ UNCHANGED requests
             ELSE /\ upload' = [upload EXCEPT !.pc = "post", !.fetchAnswer = <<response>>,
                                              !.form = <<FormData(file, opts, done)>>]
                  /\ requests' = Append(requests, uploadPost(FormData(file, opts, done)))
          /\ UNCHANGED <<options, last, nsetters, calls, inference>>

\* POST /upload settles: upload resolves or rejects with what the transport gives
UploadPostSettles ==
    \E response \in UploadAnswers :
        /\ upload.pc = "post"
        /\ upload' = [upload EXCEPT !.pc = "done", !.postAnswer = <<response>>,
                                    !.result = request(response)]
        /\ UNCHANGED <<options, last, nsetters, calls, requests, inference>>

InitUpload == InitSetters

NextUpload ==
    \/ CallUpload
    \/ RemoteFetchSettles
    \/ UploadPostSettles

\* one upload call, over every input shape, option and answer
SpecUpload == InitUpload /\ [][NextUpload]_vars

(***************************************************************************)
(* Properties of upload.                                                   *)
(***************************************************************************)
Uploaded == upload.file[1]
UploadOpts == upload.options[1]
UploadPosts == RequestsOf(1, "POST")
UploadGets == RequestsOf(1, "GET")

IsDataString(file) == file.kind = "string" /\ StartsWith(file.text, <<"d", "a", "t", "a", ":">>)
IsHttpString(file) ==
    /\ file.kind = "string" /\ ~IsDataString(file)
    /\ (StartsWith(file.text, <<"h", "t", "t", "p", ":", "/", "/">>) \/ StartsWith(file.text, <<"h", "t", "t", "p", "s", ":", "/", "/">>))
IsPathString(file) ==
    file.kind = "string" /\ ~IsDataString(file) /\ ~IsHttpString(file)

\* why the normalisation of the uploaded input fails: <<>> when it does not
\* (or, for a remote URL still being fetched, not yet)
NormalizationFailure ==
    IF Uploaded.kind \notin {"File", "Buffer", "string"} THEN <<"unsupported input shape">>
    ELSE IF IsDataString(Uploaded) /\ MatchDataUrl(Uploaded.text) = <<>>
    THEN <<"malformed data URL">>
    ELSE IF IsDataString(Uploaded) /\ ~AtobAccepts(MatchDataUrl(Uploaded.text)[1].data)
    THEN <<"undecodable data URL">>
    ELSE IF IsHttpString(Uploaded) /\ upload.fetchAnswer # <<>>
            /\ PostFailed(upload.fetchAnswer[1])
    THEN <<"unsuccessful remote fetch">>
    ELSE IF IsPathString(Uploaded) /\ upload.window THEN <<"no filesystem access">>
    ELSE IF IsPathString(Uploaded) /\ upload.read # <<>> /\ ~upload.read[1].ok
    THEN <<"unreadable local path">>
    ELSE <<>>

\* how the message of the error of each failure begins
FailureMessage(why) ==
    CASE why = "unsupported input shape" -> "Unsupported file type for upload"
      [] why = "malformed data URL" -> "Invalid data URL format"
      [] why = "undecodable data URL" -> "The string to be decoded is not correctly encoded."
      [] why = "unsuccessful remote fetch" -> "Failed to process remote URL: "
      [] why = "no filesystem access" ->
            "File path access is not supported in browser environments"
      [] why = "unreadable local path" -> "Failed to read file from path: "

\* C7 (checked under SpecUpload): upload issues exactly one POST /upload,
\* carrying the normalised file part, when the normalisation of its input
\* succeeds, and no POST at all when it fails (unsupported input shape,
\* malformed data URL, unsuccessful remote fetch, unreadable local path, no
\* filesystem access): the call is then rejected with the normalisation
\* error; no request is ever repeated.
C7_OnePostIffNormalized ==
    upload.pc # "idle" =>
        /\ Len(UploadPosts) <= 1 /\ Len(UploadGets) <= 1
        /\ Len(requests) = Len(UploadPosts) + Len(UploadGets)
        /\ NormalizationFailure # <<>> =>
              /\ UploadPosts = <<>>
              /\ upload.pc = "done"
              /\ upload.result.state = "rejected"
              /\ upload.result.error[1].message[1] = FailureMessage(NormalizationFailure[1])
        /\ (NormalizationFailure = <<>> /\ upload.pc # "fetch") =>
              /\ Len(UploadPosts) = 1
              /\ UploadPosts[1].target = <<"/upload">>
              /\ UploadPosts[1].body[1].file # <<>>
              /\ requests[Len(requests)] = UploadPosts[1]

\* a remote URL whose fetch was answered 404: one GET, no POST, the call rejected
C7_Witness ==
    /\ upload.pc = "done"
    /\ upload.handler = "handleRemoteUrl"
    /\ upload.fetchAnswer # <<>> /\ upload.fetchAnswer[1].kind = "response"
    /\ upload.fetchAnswer[1].status = 404
    /\ Len(UploadGets) = 1 /\ UploadPosts = <<>>
    /\ upload.result.state = "rejected"

UploadFailsWith(message) ==
    /\ upload.pc = "done"
    /\ upload.result.state = "rejected"
    /\ upload.result.error[1].message = <<message>>
    /\ requests = <<>>

\* C8 (checked under SpecUpload): the dispatch of upload is first match wins,
\* File, then buffer, then string, and for a string data URL, then http(s)
\* URL, then local path.  A string beginning with "data:" is handled as a
\* data URL only (nothing is fetched, nothing is read; one that fails the
\* data URL pattern fails the call with the invalid data URL error); any other
\* string beginning with "http://" or "https://" is fetched, at that very URL,
\* and nothing is read; any remaining string is treated as a local path and,
\* where there is a filesystem, that very path is read and nothing is fetched;
\* an input that is not a File, a buffer or a string fails the call with the
\* unsupported input error.
C8_DispatchFirstMatch ==
    upload.pc # "idle" =>
        /\ Uploaded.kind = "File" =>
              upload.handler = "handleFileObject" /\ UploadGets = <<>> /\ upload.read = <<>>
        /\ Uploaded.kind = "Buffer" =>
              upload.handler = "handleBufferObject" /\ UploadGets = <<>> /\ upload.read = <<>>
        /\ IsDataString(Uploaded) =>
              /\ upload.handler = "handleDataUrl"
              /\ UploadGets = <<>> /\ upload.read = <<>>
              /\ MatchDataUrl(Uploaded.text) = <<>> =>
                    UploadFailsWith("Invalid data URL format")
              /\ upload.result.state = "rejected" =>
                    \/ upload.postAnswer # <<>>
                    \/ upload.result.error[1].message[1] \in
                         {"Invalid data URL format",
                          "The string to be decoded is not correctly encoded."}
        /\ IsHttpString(Uploaded) =>
              /\ upload.handler = "handleRemoteUrl"
              /\ Len(UploadGets) = 1 /\ UploadGets[1].target = <<Uploaded.text>>
              /\ requests[1] = UploadGets[1]
              /\ upload.read = <<>>
        /\ IsPathString(Uploaded) =>
              /\ upload.handler = "handleLocalFilePath"
              /\ UploadGets = <<>>
              /\ ~upload.window =>
                    Len(upload.read) = 1 /\ upload.read[1].path = Uploaded.text
              /\ upload.window =>
                    UploadFailsWith("File path access is not supported in browser environments")
        /\ Uploaded.kind \notin {"File", "Buffer", "string"} =>
              UploadFailsWith("Unsupported file type for upload")

\* a string that begins with "data:", fails the data URL pattern and holds an
\* http URL: rejected as an invalid data URL, nothing fetched
C8_Witness ==
    /\ upload.pc = "done"
    /\ Uploaded.kind = "string" /\ Uploaded.text = <<"d", "a", "t", "a", ":", "h", "t", "t", "p", ":", "/", "/", "h", "/", "a", ".", "p", "n", "g">>
    /\ UploadFailsWith("Invalid data URL format")

\* the file part of the form upload posted
UploadedPart == upload.form[1].file[1]

\* C9 (checked under SpecUpload): with every upload method, a supplied
\* options.filename is the filename of the uploaded file part and a supplied
\* options.mimeType is its MIME type.
C9_OptionsHonoured ==
    upload.form # <<>> =>
        /\ TruthyStr(UploadOpts.filename) => UploadedPart.name = UploadOpts.filename[1]
        /\ TruthyStr(UploadOpts.mimeType) => UploadedPart.type = UploadOpts.mimeType[1]

\* C10 (checked under SpecUpload): the form upload posts holds a
\* customFilename field, of value options.filename, if and only if a filename
\* was supplied (a non-empty string) and the input is not a File; the form is
\* the body of the POST.
C10_CustomFilename ==
    upload.form # <<>> =>
        LET field == UploadPosts[1].body[1].customFilename
            supplied == UploadOpts.filename # <<>> /\ UploadOpts.filename[1] # <<>>
        IN  /\ Len(UploadPosts) = 1
            /\ UploadPosts[1].body = upload.form
            /\ field # <<>> <=> (supplied /\ Uploaded.kind # "File")
            /\ field # <<>> => field = UploadOpts.filename
            /\ Uploaded.kind = "File" => field = <<>>
            /\ ~supplied => field = <<>>

\* a buffer uploaded under a supplied filename, and its field in the POST
C10_Witness ==
    /\ upload.form # <<>>
    /\ Uploaded.kind = "Buffer"
    /\ UploadOpts.filename = <<<<"c", "u", "s", "t", "o", "m", "-", "n", "a", "m", "e", ".", "j", "p", "g">>>>
    /\ Len(UploadPosts) = 1
    /\ UploadPosts[1].body[1].customFilename = <<<<"c", "u", "s", "t", "o", "m", "-", "n", "a", "m", "e", ".", "j", "p", "g">>>>

\* the segments of the path of an http(s) URL, its query string stripped
PathSegments(url) ==
    LET scheme == IF StartsWith(url, <<"h", "t", "t", "p", "s", ":", "/", "/">>) THEN <<"h", "t", "t", "p", "s", ":", "/", "/">> ELSE <<"h", "t", "t", "p", ":", "/", "/">>
        rest == Drop(url, Len(scheme))
        q == IndexOf(rest, "?")
        noQuery == IF q # 0 THEN SubSeq(rest, 1, q - 1) ELSE rest
    IN  Tail(Split(noQuery, {"/"}))

\* the last non-empty path segment of the URL, or "download" when it has none
LastPathSegment(url) ==
    LET named == SelectSeq(PathSegments(url), LAMBDA seg : seg # <<>>)
    IN  IF named # <<>> THEN named[Len(named)] ELSE <<"d", "o", "w", "n", "l", "o", "a", "d">>

\* C11 (checked under SpecUpload): the file part of a remote URL upload whose
\* fetch succeeded is named options.filename if one was supplied; else by the
\* filename="..." capture of the Content-Disposition header of the response
\* if there is one; else by the last non-empty segment of the path of the URL,
\* its query string stripped; else "download".
C11_RemoteFilename ==
    (upload.handler = "handleRemoteUrl" /\ upload.form # <<>>) =>
        LET headers == upload.fetchAnswer[1].headers
            capture == IF headers.disposition # <<>>
                       THEN MatchFilename(headers.disposition[1]) ELSE <<>>
        IN  UploadedPart.name =
                IF TruthyStr(UploadOpts.filename) THEN UploadOpts.filename[1]
                ELSE IF capture # <<>> THEN capture[1]
                ELSE LastPathSegment(Uploaded.text)

(***************************************************************************)
(* FileAPI.list as a process: the call and the GET it awaits.              *)
(***************************************************************************)
\* URLSearchParams.toString of params, a sequence of [name, value]; no name
\* or value here holds a character that is percent-encoded
SearchParams(params) ==
    LET F[i \in 0..Len(params)] ==
            IF i = 0 THEN <<>>
            ELSE F[i - 1] \o (IF i > 1 THEN <<"&">> ELSE <<>>)
                         \o params[i].name \o <<"=">> \o params[i].value
    IN  F[Len(params)]

\* HttpClient.get: the request it issues
get(path) == [method |-> "GET", target |-> <<path>>, body |-> <<>>, accept |-> <<>>]

\* list(options): the request it issues
list(opts) ==
    LET page == IF TruthyNum(opts.page)
                THEN <<[name |-> <<"p", "a", "g", "e">>, value |-> NumToString(opts.page[1])]>>
                ELSE <<>>
        pageSize == IF TruthyNum(opts.pageSize)
                    THEN <<[name |-> <<"p", "a", "g", "e", "S", "i", "z", "e">>, value |-> NumToString(opts.pageSize[1])]>>
                    ELSE <<>>
    IN  get(<<"/", "f", "i", "l", "e", "s", "?">> \o SearchParams(page \o pageSize))

\* the options of list; list() and list({}) are the record without property
ListOptions ==
    [page : {<<>>, <<Num(0)>>, <<Num(1)>>, <<Num(2)>>},
     pageSize : {<<>>, <<Num(0)>>, <<Num(10)>>, <<Num(100)>>}]

\* what the API answers to GET /files
ListAnswers ==
    { Rejection(<<"fetch failed">>),
      Rejection(<<>>),
      Response(200, "OK", Json(<<>>, <<>>, <<>>)),
      Response(200, "OK", NotJson),
      WithHeaders(Response(200, "OK", Json(<<>>, <<>>, <<>>)), <<>>, <<<<"a", "p", "p", "l", "i", "c", "a", "t", "i", "o", "n", "/", "j", "s", "o", "n">>>>),
      Response(204, "No Content", NotJson),
      Response(304, "Not Modified", NotJson),
      Response(401, "Unauthorized", Json(<<<<"invalid key">>>>, <<<<"unauthorized">>>>, <<>>)),
      Response(403, "Forbidden", Json(<<<<>>>>, <<<<"forbidden">>>>, <<>>)),
      Response(404, "Not Found", Json(<<>>, <<<<"not found">>>>, <<>>)),
      Response(429, "Too Many Requests", Json(<<>>, <<>>, <<>>)),
      Response(500, "Internal Server Error", NotJson) }

CallList ==
    \E opts \in ListOptions :
        /\ calls = <<>>
        /\ calls' = <<[kind |-> "list", pc |-> "get", options |-> opts,
                       answer |-> <<>>, result |-> Pending]>>
        /\ requests' = Append(requests, [call |-> 1] @@ list(opts))
        /\ UNCHANGED <<options, last, nsetters, upload, inference>>

\* the GET of list settles
ListSettles ==
    \E response \in ListAnswers :
        /\ Len(calls) = 1 /\ calls[1].pc = "get"
        /\ calls' = <<[calls[1] EXCEPT !.pc = "done", !.answer = <<response>>,
                                       !.result = request(response)]>>
        /\ UNCHANGED <<options, last, nsetters, upload, requests, inference>>

InitList == InitSetters

NextList ==
    \/ CallList
    \/ ListSettles

\* one list call, over its options and every kind of answer
SpecList == InitList /\ [][NextList]_vars

\* C12 (checked under SpecList): list issues exactly one GET, to /files, whose
\* query string holds page if and only if page was supplied and pageSize if
\* and only if pageSize was supplied, each with the supplied value, page first;
\* list({page: 2, pageSize: 10}) gives page=2&pageSize=10 and list() gives the
\* empty query string.
C12_ListQuery ==
    calls # <<>> =>
        LET opts == calls[1].options
            page == IF opts.page # <<>>
                    THEN <<<<"p", "a", "g", "e", "=">> \o NumToString(opts.page[1])>> ELSE <<>>
            pageSize == IF opts.pageSize # <<>>
                        THEN <<<<"p", "a", "g", "e", "S", "i", "z", "e", "=">> \o NumToString(opts.pageSize[1])>> ELSE <<>>
            both == page \o pageSize
            query == IF Len(both) = 2 THEN both[1] \o <<"&">> \o both[2]
                     ELSE IF Len(both) = 1 THEN both[1] ELSE <<>>
        IN  /\ Len(requests) = 1
            /\ requests[1].method = "GET"
            /\ requests[1].target = <<<<"/", "f", "i", "l", "e", "s", "?">> \o query>>
            /\ (opts.page = <<Num(2)>> /\ opts.pageSize = <<Num(10)>>) =>
                  requests[1].target = <<<<"/", "f", "i", "l", "e", "s", "?", "p", "a", "g", "e", "=", "2", "&", "p", "a", "g", "e", "S", "i", "z", "e", "=", "1", "0">>>>
            /\ (opts.page = <<>> /\ opts.pageSize = <<>>) =>
                  requests[1].target = <<<<"/", "f", "i", "l", "e", "s", "?">>>>

ListAnswer == calls[1].answer[1]
ListResult == calls[1].result

\* C13 (checked under SpecList): a request through the transport ends in
\* exactly one of three ways.  A 2xx response resolves with data, status and
\* headers, data being null when the body is empty or not JSON; any other
\* response rejects with an APIError whose status is the HTTP status and whose
\* message is the message of the body when it has one (a non-empty string),
\* else its error, else "Unknown error occurred", and which is not turned
\* into a NetworkError; a failure of the transport rejects with status 0 and
\* status text "NetworkError".
C13_TransportOutcomes ==
    (calls # <<>> /\ calls[1].pc = "done") =>
        /\ ListResult.state \in {"resolved", "rejected"}
        /\ (ListAnswer.kind = "response" /\ Ok(ListAnswer.status)) =>
              /\ ListResult.state = "resolved"
              /\ ListResult.value[1].status = ListAnswer.status
              /\ ListResult.value[1].headers = ListAnswer.headers
              /\ ListResult.value[1].data =
                    IF ListAnswer.body[1].json THEN ListAnswer.body ELSE <<>>
        /\ (ListAnswer.kind = "response" /\ ~Ok(ListAnswer.status)) =>
              /\ ListResult.state = "rejected"
              /\ ListResult.error[1].name = "APIError"
              /\ ListResult.error[1].status = <<ListAnswer.status>>
              /\ ListResult.error[1].statusText = <<ListAnswer.statusText>>
              /\ ListResult.error[1].statusText # <<"NetworkError">>
              /\ ListResult.error[1].message =
                    IF TruthyStr(ListAnswer.body[1].message)
                    THEN ListAnswer.body[1].message[1]
                    ELSE IF TruthyStr(ListAnswer.body[1].error)
                    THEN ListAnswer.body[1].error[1]
                    ELSE <<"Unknown error occurred">>
        /\ ListAnswer.kind = "reject" =>
              /\ ListResult.state = "rejected"
              /\ ListResult.error[1].status = <<0>>
              /\ ListResult.error[1].statusText = <<"NetworkError">>

\* a 401 whose body has a message and an error: rejected with that message
C13_Witness ==
    /\ calls # <<>> /\ calls[1].pc = "done"
    /\ ListAnswer.kind = "response" /\ ListAnswer.status = 401
    /\ ListResult.state = "rejected"
    /\ ListResult.error[1].message = <<"invalid key">>
    /\ ListResult.error[1].status = <<401>>

(***************************************************************************)
(* The MIME registry as an input: a FileAPI constructed over any registry  *)
(* in which every MIME type has at least one extension, and the lookups    *)
(* made on it.                                                             *)
(***************************************************************************)
RegistryMimes == {<<"i", "m", "a", "g", "e", "/", "j", "p", "e", "g">>, <<"i", "m", "a", "g", "e", "/", "p", "j", "p", "e", "g">>, <<"a", "p", "p", "l", "i", "c", "a", "t", "i", "o", "n", "/", "g", "z", "i", "p">>}
RegistryExtensions == {<<".", "j", "p", "g">>, <<".", "J", "P", "G">>, <<".", "j", "p", "e">>, <<".", "t", "a", "r", ".", "g", "z">>}

ExtensionLists ==
    {<<a>> : a \in RegistryExtensions}
        \cup {p \in RegistryExtensions \X RegistryExtensions : p[1] # p[2]}

\* registries: an object has each key once
Registries ==
    UNION { {r \in [1..n -> [mime : RegistryMimes, extensions : ExtensionLists]] :
                (\A i, j \in 1..n : i # j => r[i].mime # r[j].mime)} : n \in 1..MaxRegistry }

\* new FileAPI(httpClient) over a registry
InitRegistry ==
    /\ options = EmptyOptions
    /\ last = NoCall
    /\ nsetters = 0
    /\ calls = <<>>
    /\ requests = <<>>
    /\ upload = NoUpload
    /\ inference \in {NoInference(r) : r \in Registries}

\* getExtensionFromMimeType(mime) for a MIME type of the registry
CallGetExtensionFromMimeType ==
    \E i \in 1..Len(inference.allowedFileTypes) :
        LET mime == inference.allowedFileTypes[i].mime
        IN  /\ inference.mime = <<>>
            /\ inference' = [inference EXCEPT
                    !.mime = <<mime>>,
                    !.extension = <<ExtensionFromMimeType(inference.allowedFileTypes, mime)>>]
            /\ UNCHANGED <<options, last, nsetters, calls, requests, upload>>

\* getMimeTypeFromFilename("x" + ext), ext the first extension listed for a
\* MIME type of the registry
CallGetMimeTypeFromFilename ==
    \E i \in 1..Len(inference.allowedFileTypes) :
        LET mime == inference.allowedFileTypes[i].mime
            filename == <<"x">> \o inference.allowedFileTypes[i].extensions[1]
        IN  /\ inference.filename = <<>>
            /\ inference.mime \in {<<>>, <<mime>>}
            /\ inference' = [inference EXCEPT
                    !.mime = <<mime>>,
                    !.filename = <<filename>>,
                    !.inferred = <<MimeTypeFromFilename(inference.allowedFileTypes, filename)>>]
            /\ UNCHANGED <<options, last, nsetters, calls, requests, upload>>

NextRegistry ==
    \/ CallGetExtensionFromMimeType
    \/ CallGetMimeTypeFromFilename

SpecRegistry == InitRegistry /\ [][NextRegistry]_vars

\* C14 (checked under SpecRegistry): over every registry in which each MIME
\* type has at least one extension, the MIME type inferred for "x" followed by
\* the first extension listed for a MIME type is that MIME type.
C14_InferRoundTrip ==
    inference.inferred # <<>> => inference.inferred = inference.mime

(***************************************************************************)
(* Further properties of the setters.                                      *)
(***************************************************************************)
\* the recognized output formats
RecognizedFormats == {"jpeg", "jpg", "png", "webp", "avif"}

\* C15 (checked under SpecSetters): format(type) validates its argument when
\* it is called: a type that is not a recognized output format makes the call
\* throw, and the format of the option record, when present, is a recognized
\* output format.
C15_FormatValidated ==
    /\ (LastIs("format") /\ last.s[1] \notin RecognizedFormats) => last.threw
    /\ options.format # <<>> => options.format[1] \in RecognizedFormats

\* C16 (checked under SpecSetters): a setter call is all or nothing.  It either
\* returns, with the fields it sets in the option record, or throws and leaves
\* the whole option record as it was before the call.
C16_AllOrNothing ==
    [][ SetterStep =>
            IF last'.threw THEN options' = options
            ELSE \A f \in Writes(LastCall') : options'[f] # <<>>
      ]_vars

(***************************************************************************)
(* Setter calls interleaved with terminal calls in flight, the transform   *)
(* URL service answering each POST with its own URL.                       *)
(***************************************************************************)
InterleavedCalls ==
    { Call("quality", <<<<Num(90)>>>>, <<>>),
      Call("grayscale", <<>>, <<>>) }

InterleavedPostAnswers ==
    { Rejection(<<"fetch failed">>),
      Response(200, "OK", Json(<<>>, <<>>, <<"https://cdn/t1">>)),
      Response(200, "OK", Json(<<>>, <<>>, <<"https://cdn/t2">>)) }

InitInterleaved == InitSetters

NextInterleaved ==
    \/ CallQuality(InterleavedCalls)
    \/ CallGrayscale(InterleavedCalls)
    \/ CallToURL
    \/ CallTransform
    \/ PostFails(InterleavedPostAnswers)
    \/ ToURLResolves(InterleavedPostAnswers)
    \/ TransformFetches(InterleavedPostAnswers)
    \/ TransformSettles(GetAnswers)

SpecInterleaved == InitInterleaved /\ [][NextInterleaved]_vars

\* C17 (checked under SpecInterleaved): the option record a terminal call
\* submits is the record as it stood when the call was made; no later step, a
\* setter call made while the request is in flight included, changes a request
\* already issued, so that a setter is visible to later terminal calls only;
\* and the URL a transform() fetches is the one its own POST returned, whatever
\* other terminal calls are interleaved with it.
C17_SnapshotAtInvocation ==
    [][ /\ SubSeq(requests', 1, Len(requests)) = requests
        /\ SetterStep => requests' = requests
        /\ Len(calls') > Len(calls) =>
              /\ SubmittedIn(requests', Len(calls')) = JSONStringify(options)
              /\ Len(RequestsIn(requests', Len(calls'), "POST")) = 1
        /\ \A i \in 1..Len(calls') :
              LET gets == RequestsIn(requests', i, "GET")
              IN  gets # <<>> =>
                    /\ calls'[i].kind = "transform"
                    /\ calls'[i].postAnswer # <<>>
                    /\ gets[1].target = calls'[i].postAnswer[1].body[1].url
                    /\ gets[1].target = calls'[i].url
      ]_vars

\* a transform() still awaiting its POST, a setter call made since, and a
\* second transform(), made after that setter, which already fetches the URL
\* its own POST returned
C17_Witness ==
    /\ Len(calls) = 2
    /\ calls[1].kind = "transform" /\ calls[1].pc = "post"
    /\ calls[2].kind = "transform" /\ calls[2].pc = "get"
    /\ calls[1].at < calls[2].at
    /\ Submitted(1).q = <<>> /\ Submitted(2).q # <<>>
    /\ RequestsOf(2, "GET")[1].target = <<"https://cdn/t2">>

====
